---- MODULE Spec2Model ----
(***************************************************************************)
(* Model of src/data_processing/process_pickles.py: the conversion of a    *)
(* list of recorded episodes into one chunked store.                       *)
(*                                                                         *)
(* The main thread checks the output path, submits one decode task per     *)
(* input path to a thread pool, folds the results in the order             *)
(* as_completed delivers them, concatenates the per-timestep channels,     *)
(* creates the store and writes every channel, then the final metadata.    *)
(* Worker threads run process_pickle_file.                                 *)
(*                                                                         *)
(* An array is modelled as the sequence of its rows; a row is the pair     *)
(* <<i, t>> of the input path index i and the index t of the raw record    *)
(* (observation, action, reward or skill) the row is computed from.        *)
(***************************************************************************)
EXTENDS Integers, Sequences, FiniteSets, TLC

\* ------------------------------------------------------------------ bounds
MaxEpisodes == 2
MaxThreads == 2

\* ------------------------------------------------------- program constants
ActionWidth == 8
StateWidth == 14

\* ---------------------------------------------------------------- helpers
Range(s) == {s[k] : k \in 1..Len(s)}

\* np.concatenate of a non-empty list of arrays: the rows of the arrays, in
\* list order.
RECURSIVE np_concatenate(_)
np_concatenate(segs) ==
    IF segs = <<>> THEN <<>> ELSE Head(segs) \o np_concatenate(Tail(segs))

\* ------------------------------------------------------------------ inputs
\* A raw episode file, reduced to what process_pickle_file looks at: the
\* numbers of observations, actions, rewards and skills, the widths of the
\* robot state and of an action, whether the file unpickles, whether the
\* path has a "raw" component, and the two scalars.
Episode(no, na, nr, ns, sw, aw, rd, raw, fu, su) ==
    [nObs |-> no, nAct |-> na, nRew |-> nr, nSkill |-> ns,
     stateW |-> sw, actW |-> aw, readable |-> rd, underRaw |-> raw,
     furniture |-> fu, success |-> su]

\* Two well-formed episodes, of lengths 5 and 3.
Ep5 == Episode(6, 5, 5, 5, 14, 8, TRUE, TRUE, "lamp", 1)
Ep3 == Episode(4, 3, 3, 3, 14, 8, TRUE, TRUE, "one_leg", 0)

EpisodeKinds ==
    { Ep5,
      Ep3,
      Episode(4, 2, 2, 2, 14, 8, TRUE, TRUE, "lamp", 0),        \* 3 states, 2 actions
      Episode(3, 2, 1, 3, 14, 8, TRUE, TRUE, "lamp", 1),        \* 1 reward, 3 skills
      Episode(1, 0, 0, 0, 14, 8, TRUE, TRUE, "lamp", 0),        \* no action
      Episode(3, 2, 2, 2, 13, 8, TRUE, TRUE, "lamp", 0),        \* 13-wide state
      Episode(3, 2, 2, 2, 14, 7, TRUE, TRUE, "lamp", 0),        \* 7-wide action
      Episode(3, 2, 2, 2, 14, 8, TRUE, FALSE, "lamp", 1),       \* path without raw
      Episode(3, 2, 2, 2, 14, 8, FALSE, TRUE, "lamp", 1) }      \* does not unpickle

RECURSIVE SeqsUpTo(_, _)
SeqsUpTo(S, n) ==
    IF n = 0 THEN {<<>>}
    ELSE LET shorter == SeqsUpTo(S, n - 1)
         IN  shorter \cup {Append(s, x) : s \in shorter, x \in S}

\* ------------------------------------------------------- process_pickle_file
\* The outcome of process_pickle_file on an episode: "ok" or the error raised.
ProcessOutcome(ep) ==
    IF ~ep.readable THEN "DecodeFailure"                       \* unpickle_data
    ELSE IF ep.nObs = 0 THEN "IndexError"                      \* shape[1] of a (0,) array
    ELSE IF ep.stateW # StateWidth THEN "AssertionError"       \* Robot state must be 14D
    ELSE IF ep.nAct = 0 THEN "IndexError"                      \* shape[1] of a (0,) array
    ELSE IF ep.actW # ActionWidth THEN "AssertionError"        \* Action must be 8D
    ELSE IF ep.nObs - 1 # ep.nAct THEN "AssertionError"        \* Mismatch in {pickle_path}
    ELSE IF ~ep.underRaw THEN "ValueError"                     \* parts.index("raw")
    ELSE "ok"

\* Rows i of an array built from the raw records first..last of path p.
Rows(p, first, last) == [k \in 1..(last - first + 1) |-> <<p, first + k - 1>>]

\* The keys of processed_data, in the order the dict is built.
DataKeys ==
    << "robot_state", "color_image1", "color_image2", "action/delta",
       "action/pos", "reward", "skill", "episode_length", "furniture",
       "success", "pickle_file" >>

\* processed_data[key] for the episode ep read from path index p.
process_pickle_file(p, ep, key) ==
    CASE key = "robot_state"    -> Rows(p, 0, ep.nObs - 2)     \* all_robot_state[:-1]
      [] key = "color_image1"   -> Rows(p, 0, ep.nObs - 2)     \* [...][:-1]
      [] key = "color_image2"   -> Rows(p, 0, ep.nObs - 2)
      [] key = "action/delta"   -> Rows(p, 0, ep.nAct - 1)
      [] key = "action/pos"     -> Rows(p, 1, ep.nObs - 1)     \* all_robot_state[1:]
      [] key = "reward"         -> Rows(p, 0, ep.nRew - 1)
      [] key = "skill"          -> Rows(p, 0, ep.nSkill - 1)
      [] key = "episode_length" -> ep.nAct                     \* len(action_delta)
      [] key = "furniture"      -> ep.furniture
      [] key = "success"        -> ep.success
      [] key = "pickle_file"    -> p


\* --------------------------------------------------------------- the store
\* The keys of aggregated_data, in the order the dict is built; the write
\* loop of the script iterates over them in this order.
AggKeys ==
    << "robot_state", "color_image1", "color_image2", "action/delta",
       "action/pos", "reward", "skill", "episode_ends", "furniture",
       "success", "pickle_file" >>

\* The keys concatenated into one array per channel.
TimestepKeys ==
    { "robot_state", "color_image1", "color_image2", "action/delta",
      "action/pos", "reward", "skill" }

EpisodeKeys == { "episode_ends", "furniture", "success", "pickle_file" }

Channels == TimestepKeys \cup EpisodeKeys

\* Mutant of ShapeNames: full_data_shapes has no entry for skill.
ShapeNames_NoSkill ==
    << "robot_state", "color_image1", "color_image2", "action/delta",
       "action/pos", "reward", "episode_ends", "furniture", "success",
       "pickle_file" >>

\* The names of full_data_shapes, in the order the datasets are created.
ShapeNames ==
    << "robot_state", "color_image1", "color_image2", "action/delta",
       "action/pos", "skill", "reward", "episode_ends", "furniture",
       "success", "pickle_file" >>

\* The attributes written after the write loop, in order.
FinalAttrs == << "time_finished", "noop_threshold", "chunksize" >>

AttrNames == {"time_created"} \cup Range(FinalAttrs)

\* No store at the output path.
NoStore ==
    [exists |-> FALSE,
     created |-> [c \in Channels |-> "no"],
     shape |-> [c \in Channels |-> 0],
     written |-> [c \in Channels |-> "no"],
     data |-> [c \in Channels |-> <<>>],
     nwrites |-> [c \in Channels |-> 0],
     attrs |-> [a \in AttrNames |-> "absent"],
     extra |-> "absent"]

\* A complete store left at the output path by an earlier run; extra stands
\* for whatever else the path holds besides the channels and attributes this
\* script writes.  nwrites counts the writes of this run to a channel.
OldStore ==
    [exists |-> TRUE,
     created |-> [c \in Channels |-> "old"],
     shape |-> [c \in Channels |-> 1],
     written |-> [c \in Channels |-> "old"],
     data |-> [c \in Channels |-> <<>>],
     nwrites |-> [c \in Channels |-> 0],
     attrs |-> [a \in AttrNames |-> "old"],
     extra |-> "old"]

\* ------------------------------------------------------------------- state
VARIABLES
    paths,        \* pickle_paths: the episodes behind the input paths
    overwrite,    \* args.overwrite
    numThreads,   \* n_cpus
    target,       \* what is at output_path when the script starts
    store,        \* what is at output_path
    pc,           \* position of the main thread
    err,          \* the error that ended the script and where it was raised
    fstate,       \* state of the future of each path
    completed,    \* the futures in the order their tasks finished
    snapshot,     \* as_completed: the futures found finished at its start
    waitq,        \* as_completed: futures finished since, not yet yielded
    yielded,      \* the futures as_completed has yielded, in order
    cur,          \* the future whose result is being folded, 0 if none
    idx,          \* position in the loop the main thread is in
    agg,          \* aggregated_data
    traj,         \* process_pickle_file: the unpickled episode (data)
    dpc,          \* process_pickle_file: position in the function
    out,          \* process_pickle_file: the arrays computed so far
    wtask,        \* parallel_write_to_zarr: state of the write of each key
    wseen         \* parallel_write_to_zarr: the futures already yielded

vars ==
    << paths, overwrite, numThreads, target, store, pc, err, fstate, completed,
       snapshot, waitq, yielded, cur, idx, agg, traj, dpc, out, wtask, wseen >>

decoder == << traj, dpc, out >>
writer == << wtask, wseen >>
aux == << decoder, writer >>

inputs == << paths, overwrite, numThreads, target >>
pool == << fstate, completed, snapshot, waitq, yielded >>

N == Len(paths)
Futures == 1..N

Unfinished == {f \in Futures : fstate[f] \in {"queued", "running"}}
Finished == {f \in Futures : fstate[f] \in {"ok", "failed"}}

NoError == [kind |-> "none", at |-> "none"]

\* process_pickle_file and parallel_write_to_zarr are followed statement by
\* statement in specifications of their own; in the script's run they are
\* at rest (the script writes in its own loop and never calls the latter).
DecoderIdle ==
    /\ traj = << >>
    /\ dpc = "idle"
    /\ out = << >>

WriterIdle ==
    /\ wtask = << >>
    /\ wseen = {}


EmptyAgg == [k \in Range(AggKeys) |-> <<>>]

Init ==
    /\ paths \in SeqsUpTo(EpisodeKinds, MaxEpisodes)
    /\ overwrite \in BOOLEAN
    /\ numThreads \in 1..MaxThreads
    /\ target \in {NoStore, OldStore}
    /\ store = target
    /\ pc = "check"
    /\ err = NoError
    /\ fstate = [f \in Futures |-> "new"]
    /\ completed = <<>>
    /\ snapshot = {}
    /\ waitq = <<>>
    /\ yielded = <<>>
    /\ cur = 0
    /\ idx = 0
    /\ agg = EmptyAgg
    /\ DecoderIdle
    /\ WriterIdle

\* Mutant of zarr_open_w: the path is opened with mode="a", which keeps what
\* is there.
zarr_open_a ==
    [store EXCEPT !.exists = TRUE]

\* zarr.open(path, mode="w"): whatever is at the path is removed and an
\* empty group is created.
zarr_open_w ==
    [NoStore EXCEPT !.exists = TRUE]

\* --------------------------------------------------------- the main thread
Raise(e) ==
    /\ pc' = "error"
    /\ err' = [kind |-> e, at |-> pc]

\* Mutant of OutputBlocked: the existence of the output is not checked.
OutputBlocked_Unchecked == FALSE

\* if output_path.exists() and not args.overwrite: raise ValueError
OutputBlocked == store.exists /\ ~overwrite

\* Mutant of CheckOutput: the store is opened before the episodes are decoded.
CheckOutput_OpenEarly ==
    /\ pc = "check"
    /\ IF OutputBlocked
       THEN Raise("AlreadyExists") /\ store' = store
       ELSE pc' = "submit" /\ err' = err /\ store' = zarr_open_w
    /\ UNCHANGED << aux, inputs, pool, cur, idx, agg >>

CheckOutput ==
    /\ pc = "check"
    /\ IF OutputBlocked
       THEN Raise("AlreadyExists")
       ELSE pc' = "submit" /\ err' = err
    /\ UNCHANGED << aux, inputs, store, pool, cur, idx, agg >>

\* executor.submit(process_pickle_file, path, noop_threshold), next path
Submit ==
    /\ pc = "submit"
    /\ idx < N
    /\ idx' = idx + 1
    /\ fstate' = [fstate EXCEPT ![idx + 1] = "queued"]
    /\ UNCHANGED << aux, inputs, store, pc, err, completed, snapshot, waitq, yielded,
                    cur, agg >>

\* The first step of as_completed(futures): the futures already finished are
\* collected into a set, which is yielded first, in the set's order.
AsCompletedStart ==
    /\ pc = "submit"
    /\ idx = N
    /\ snapshot' = Finished
    /\ pc' = "collect"
    /\ UNCHANGED << aux, inputs, store, err, fstate, completed, waitq, yielded,
                    cur, idx, agg >>

\* Mutant of TakeResult: the error of a failed task is swallowed and the
\* episode skipped.
TakeResult_SkipFailed(f) ==
    /\ yielded' = Append(yielded, f)
    /\ IF fstate[f] = "failed"
       THEN UNCHANGED << pc, err, cur, idx >>
       ELSE /\ pc' = "fold"
            /\ cur' = f
            /\ idx' = 1
            /\ err' = err

\* data = future.result() of a yielded future f.
TakeResult(f) ==
    /\ yielded' = Append(yielded, f)
    /\ IF fstate[f] = "failed"
       THEN /\ err' = [kind |-> ProcessOutcome(paths[f]), at |-> pc]
            /\ pc' = "shutdown"
            /\ UNCHANGED << cur, idx >>
       ELSE /\ pc' = "fold"
            /\ cur' = f
            /\ idx' = 1
            /\ err' = err

\* The futures of the initial set that as_completed has still to yield.
NotYetYielded == snapshot \ Range(yielded)

\* The next future of as_completed: one of the initial set while it lasts,
\* then the futures in the order they finished.
NextFuture ==
    /\ pc = "collect"
    /\ \/ \E f \in NotYetYielded :
            /\ waitq' = waitq
            /\ TakeResult(f)
       \/ /\ NotYetYielded = {}
          /\ waitq # <<>>
          /\ waitq' = Tail(waitq)
          /\ TakeResult(Head(waitq))
    /\ UNCHANGED << aux, inputs, store, fstate, completed, snapshot, agg >>

\* Mutant of FoldStep: the end offset is not accumulated.
FoldStep_NoOffset(a, f, key) ==
    IF key = "episode_length"
    THEN [a EXCEPT !["episode_ends"] =
            Append(a["episode_ends"], process_pickle_file(f, paths[f], key))]
    ELSE [a EXCEPT ![key] = Append(a[key], process_pickle_file(f, paths[f], key))]

\* Mutant of FoldStep: the source path of an episode is not recorded.
FoldStep_NoPickleFile(a, f, key) ==
    IF key = "episode_length"
    THEN LET ends == a["episode_ends"]
             last_end == IF Len(ends) > 0 THEN ends[Len(ends)] ELSE 0
         IN  [a EXCEPT !["episode_ends"] =
                Append(ends, last_end + process_pickle_file(f, paths[f], key))]
    ELSE IF key = "pickle_file" THEN a
    ELSE [a EXCEPT ![key] = Append(a[key], process_pickle_file(f, paths[f], key))]

\* Mutant of FoldStep: rewards are put in front of the list, not at its end.
FoldStep_RewardFront(a, f, key) ==
    IF key = "episode_length"
    THEN LET ends == a["episode_ends"]
             last_end == IF Len(ends) > 0 THEN ends[Len(ends)] ELSE 0
         IN  [a EXCEPT !["episode_ends"] =
                Append(ends, last_end + process_pickle_file(f, paths[f], key))]
    ELSE IF key = "reward"
    THEN [a EXCEPT ![key] = <<process_pickle_file(f, paths[f], key)>> \o a[key]]
    ELSE [a EXCEPT ![key] = Append(a[key], process_pickle_file(f, paths[f], key))]

\* aggregated_data after one step of the loop "for key in data" on the
\* result of the future f.
FoldStep(a, f, key) ==
    IF key = "episode_length"
    THEN LET ends == a["episode_ends"]
             last_end == IF Len(ends) > 0 THEN ends[Len(ends)] ELSE 0
         IN  [a EXCEPT !["episode_ends"] =
                Append(ends, last_end + process_pickle_file(f, paths[f], key))]
    ELSE [a EXCEPT ![key] = Append(a[key], process_pickle_file(f, paths[f], key))]

FoldKey ==
    /\ pc = "fold"
    /\ agg' = FoldStep(agg, cur, DataKeys[idx])
    /\ IF idx < Len(DataKeys)
       THEN idx' = idx + 1 /\ UNCHANGED << pc, cur >>
       ELSE pc' = "collect" /\ cur' = 0 /\ idx' = 0
    /\ UNCHANGED << aux, inputs, store, err, pool >>

\* The loop over as_completed ends when every future has been yielded; the
\* with-block is left and the lists are concatenated.  np.concatenate of an
\* empty list raises ValueError.
ConcatAll(a) ==
    [k \in Range(AggKeys) |->
        IF k \in TimestepKeys THEN np_concatenate(a[k]) ELSE a[k]]

\* Mutant of Concatenate: the collection loop is left after the first result.
Concatenate_Early ==
    /\ pc = "collect"
    /\ Len(yielded) >= 1
    /\ agg' = ConcatAll(agg)
    /\ pc' = "returned"
    /\ UNCHANGED << aux, inputs, store, err, pool, cur, idx >>

\* Mutant of Concatenate: an empty list of arrays concatenates to an empty array.
Concatenate_EmptyOk ==
    /\ pc = "collect"
    /\ Len(yielded) = N
    /\ agg' = ConcatAll(agg)
    /\ pc' = "returned"
    /\ UNCHANGED << aux, inputs, store, err, pool, cur, idx >>

Concatenate ==
    /\ pc = "collect"
    /\ Len(yielded) = N
    /\ IF agg["robot_state"] = <<>>
       THEN /\ pc' = "error"
            /\ err' = [kind |-> "ValueError", at |-> "concat"]
            /\ agg' = agg
       ELSE /\ agg' = ConcatAll(agg)
            /\ pc' = "returned"
            /\ err' = err
    /\ UNCHANGED << aux, inputs, store, pool, cur, idx >>

\* Mutant of ShutdownWait: the pool is shut down without waiting.
ShutdownWait_NoWait ==
    /\ pc = "shutdown"
    /\ pc' = "error"
    /\ UNCHANGED << aux, inputs, store, err, pool, cur, idx, agg >>

\* An exception leaves the with-block: ThreadPoolExecutor.__exit__ waits for
\* every submitted task, then the exception ends the script.
ShutdownWait ==
    /\ pc = "shutdown"
    /\ Unfinished = {}
    /\ pc' = "error"
    /\ UNCHANGED << aux, inputs, store, err, pool, cur, idx, agg >>

\* ------------------------------------------------------ the worker threads
Running == {f \in Futures : fstate[f] = "running"}
Queued == {f \in Futures : fstate[f] = "queued"}

\* A free worker takes the oldest queued task.
StartTask ==
    /\ Queued # {}
    /\ Cardinality(Running) < numThreads
    /\ LET f == CHOOSE g \in Queued : \A h \in Queued : g <= h
       IN  fstate' = [fstate EXCEPT ![f] = "running"]
    /\ UNCHANGED << aux, inputs, store, pc, err, completed, snapshot, waitq, yielded,
                    cur, idx, agg >>

\* A running task returns or raises; the future is set and the waiter of
\* as_completed, once installed, is told.
FinishTask ==
    \E f \in Running :
        /\ fstate' = [fstate EXCEPT ![f] =
                        IF ProcessOutcome(paths[f]) = "ok" THEN "ok" ELSE "failed"]
        /\ completed' = Append(completed, f)
        /\ waitq' = IF pc \in {"collect", "fold"} THEN Append(waitq, f) ELSE waitq
        /\ UNCHANGED << aux, inputs, store, pc, err, snapshot, yielded, cur, idx, agg >>

\* ------------------------------------------------------------- write phase
\* The leading dimension of full_data_shapes for a channel.
FullShape(name) == Len(agg[name])

\* z = zarr.open(str(out_path), mode="w"); when it fails, what was at the
\* path is still there, or removed, or replaced by the empty group.
OpenStore ==
    /\ pc = "returned"
    /\ \E ok \in BOOLEAN :
          IF ok
          THEN store' = zarr_open_w /\ pc' = "stamp" /\ err' = err
          ELSE Raise("IOError") /\ store' \in {store, NoStore, zarr_open_w}
    /\ UNCHANGED << aux, inputs, pool, cur, idx, agg >>

\* Mutant of StampCreated: the completion time is stamped with the creation
\* time.
StampCreated_AlsoFinished ==
    /\ pc = "stamp"
    /\ store' = [store EXCEPT !.attrs["time_created"] = "run",
                              !.attrs["time_finished"] = "run"]
    /\ pc' = "create"
    /\ idx' = 1
    /\ UNCHANGED << aux, inputs, pool, err, cur, agg >>

\* z.attrs["time_created"] = ...
StampCreated ==
    /\ pc = "stamp"
    /\ \E ok \in BOOLEAN :
          IF ok
          THEN /\ store' = [store EXCEPT !.attrs["time_created"] = "run"]
               /\ pc' = "create"
               /\ idx' = 1
               /\ err' = err
          ELSE Raise("IOError") /\ UNCHANGED << store, idx >>
    /\ UNCHANGED << aux, inputs, pool, cur, agg >>

\* z.create_dataset(name, shape=shape, ...), next name of full_data_shapes
CreateDataset ==
    /\ pc = "create"
    /\ \E ok \in BOOLEAN :
          IF ok
          THEN LET name == ShapeNames[idx]
               IN  /\ store' = [store EXCEPT !.created[name] = "run",
                                             !.shape[name] = FullShape(name)]
                   /\ IF idx < Len(ShapeNames)
                      THEN idx' = idx + 1 /\ pc' = pc
                      ELSE idx' = 1 /\ pc' = "write"
                   /\ err' = err
          ELSE Raise("IOError") /\ UNCHANGED << store, idx >>
    /\ UNCHANGED << aux, inputs, pool, cur, agg >>

\* z[name]: the group has a dataset of the name.  CreateDataset gave it
\* the shape of all_data[name], the value the write loop hands it.
DatasetExists(name) == store.created[name] # "no"

\* The store after z[name][:] = value has raised: as it was when there is
\* no dataset of the name (ok), and after a failure of the storage (~ok)
\* with the rows of the chunks stored before the failure, possibly none.
FailedWrite(name, value, ok) ==
    IF ~ok /\ DatasetExists(name)
    THEN {[store EXCEPT !.data[name] = SubSeq(value, 1, k)] :
             k \in 0..(IF value = << >> THEN 0 ELSE Len(value) - 1)}
    ELSE {store}

\* z[name][:] = all_data[name], next name of all_data
WriteChannel ==
    /\ pc = "write"
    /\ \E ok \in BOOLEAN :
          LET name == AggKeys[idx]
          IN  IF ok /\ DatasetExists(name)
              THEN /\ store' = [store EXCEPT !.written[name] = "run",
                                             !.data[name] = agg[name],
                                             !.nwrites[name] = @ + 1]
                   /\ IF idx < Len(AggKeys)
                      THEN idx' = idx + 1 /\ pc' = pc
                      ELSE idx' = 1 /\ pc' = "finish"
                   /\ err' = err
              ELSE /\ Raise(IF ok THEN "KeyError" ELSE "IOError")
                   /\ store' \in FailedWrite(name, agg[name], ok)
                   /\ idx' = idx
    /\ UNCHANGED << aux, inputs, pool, cur, agg >>

\* z.attrs["time_finished"], ["noop_threshold"], ["chunksize"] = ...
WriteFinalAttr ==
    /\ pc = "finish"
    /\ \E ok \in BOOLEAN :
          IF ok
          THEN /\ store' = [store EXCEPT !.attrs[FinalAttrs[idx]] = "run"]
               /\ IF idx < Len(FinalAttrs)
                  THEN idx' = idx + 1 /\ pc' = pc
                  ELSE idx' = 0 /\ pc' = "done"
               /\ err' = err
          ELSE Raise("IOError") /\ UNCHANGED << store, idx >>
    /\ UNCHANGED << aux, inputs, pool, cur, agg >>

\* ----------------------------------------------------------- specification
Next ==
    \/ CheckOutput
    \/ Submit
    \/ AsCompletedStart
    \/ NextFuture
    \/ FoldKey
    \/ Concatenate
    \/ ShutdownWait
    \/ StartTask
    \/ FinishTask
    \/ OpenStore
    \/ StampCreated
    \/ CreateDataset
    \/ WriteChannel
    \/ WriteFinalAttr

Spec == Init /\ [][Next]_vars

\* The runs followed to their end start with nothing at the output path,
\* which the decode phase never reads.
FairInit ==
    /\ Init
    /\ target = NoStore
    /\ overwrite = FALSE

\* Some thread that can take a step eventually takes one: the main thread
\* and the pool's workers are scheduled by the interpreter.
FairSpec == FairInit /\ [][Next]_vars /\ WF_vars(Next)


\* ====================================================== the decode, in detail
\* The functions of process_pickle_file are followed on the numbers of one
\* episode.  A 2-D array is the sequence of its rows and a row the sequence
\* of its components; a[:, lo:hi] and np.concatenate(axis=1) work row by row.

\* The script's own variables while one of its functions is followed alone.
MainIdle ==
    /\ paths = << >>
    /\ overwrite = FALSE
    /\ numThreads = 1
    /\ target = NoStore
    /\ store = NoStore
    /\ pc = "idle"
    /\ err = NoError
    /\ fstate = << >>
    /\ completed = << >>
    /\ snapshot = {}
    /\ waitq = << >>
    /\ yielded = << >>
    /\ cur = 0
    /\ idx = 0
    /\ agg = EmptyAgg

main == << inputs, store, pc, err, pool, cur, idx, agg >>

ExpandedWidth == 16

\* a[:, lo:hi], with lo and hi counted from 1 and hi included.
Cols(a, lo, hi) == [k \in 1..Len(a) |-> SubSeq(a[k], lo, hi)]

\* a.shape[1] of an array with at least one row.
Width(a) == Len(a[1])

\* np.concatenate(parts, axis=1) of arrays with the same number of rows.
RECURSIVE JoinRow(_, _)
JoinRow(parts, k) ==
    IF parts = << >> THEN << >>
    ELSE Head(parts)[k] \o JoinRow(Tail(parts), k)

np_concatenate_axis1(parts) ==
    [k \in 1..Len(parts[1]) |-> JoinRow(parts, k)]

\* src.common.geometry.np_isaac_quat_to_rot_6d: each quaternion (x, y, z, w)
\* becomes the first two columns of its rotation matrix, one after the
\* other.  Nothing is normalised.
quat_to_rot_6d(q) ==
    LET x == q[1]
        y == q[2]
        z == q[3]
        w == q[4]
    IN  << 1 - 2 * (y * y + z * z), 2 * (x * y + z * w), 2 * (x * z - y * w),
           2 * (x * y - z * w), 1 - 2 * (x * x + z * z), 2 * (y * z + x * w) >>

np_isaac_quat_to_rot_6d(quat) ==
    [k \in 1..Len(quat) |-> quat_to_rot_6d(quat[k])]

action_to_6d_rotation(action) ==
    LET delta_pos == Cols(action, 1, 3)
        delta_quat == Cols(action, 4, 7)
        delta_gripper == Cols(action, 8, Width(action))
        delta_rot == np_isaac_quat_to_rot_6d(delta_quat)
    IN  np_concatenate_axis1(<< delta_pos, delta_rot, delta_gripper >>)

\* Mutant of proprioceptive_to_6d_rotation: the two velocities change places.
proprioceptive_to_6d_rotation_VelSwapped(robot_state) ==
    np_concatenate_axis1(<< Cols(robot_state, 1, 3),
                            np_isaac_quat_to_rot_6d(Cols(robot_state, 4, 7)),
                            Cols(robot_state, 11, 13),
                            Cols(robot_state, 8, 10),
                            Cols(robot_state, 14, Width(robot_state)) >>)

proprioceptive_to_6d_rotation(robot_state) ==
    LET pos == Cols(robot_state, 1, 3)
        ori_quat == Cols(robot_state, 4, 7)
        pos_vel == Cols(robot_state, 8, 10)
        ori_vel == Cols(robot_state, 11, 13)
        gripper == Cols(robot_state, 14, Width(robot_state))
        ori_6d == np_isaac_quat_to_rot_6d(ori_quat)
    IN  np_concatenate_axis1(<< pos, ori_6d, pos_vel, ori_vel, gripper >>)

extract_ee_pose_6d(robot_state) ==
    LET pos == Cols(robot_state, 1, 3)
        ori_6d == Cols(robot_state, 4, 9)
    IN  np_concatenate_axis1(<< pos, ori_6d >>)

\* ---------------------------------------------------------------- episodes
MaxObs == 3

\* Unit quaternions (x, y, z, w) the rows are built from.
Quats == << << 0, 0, 0, 1 >>, << 1, 0, 0, 0 >>, << 0, 1, 0, 0 >> >>
Seeds == 1..Len(Quats)

\* A row of width w: a quaternion in components 4 to 7 and, everywhere else,
\* a number that tells the row and the component.
RawRow(s, w) ==
    [j \in 1..w |-> IF j \in 4..7 THEN Quats[s][j - 3] ELSE 100 * s + j]

\* n rows of width w, the first built from seed s0 and each next one from
\* the next seed.
RawRows(n, s0, w) ==
    [k \in 1..n |-> RawRow(((s0 + k - 2) % Len(Quats)) + 1, w)]

Tagged(name, n) == [k \in 1..n |-> << name, k - 1 >>]

\* data = unpickle_data(pickle_path), each observation's robot_state already
\* passed through filter_and_concat_robot_state.
Trajectories ==
    { [states |-> RawRows(no, s0, sw), actions |-> RawRows(na, a0, aw),
       rewards |-> Tagged("reward", nr), skills |-> Tagged("skill", ns),
       furniture |-> "one_leg", success |-> TRUE, underRaw |-> raw] :
        no \in 0..MaxObs, na \in 0..MaxObs, nr \in 0..MaxObs, ns \in 0..MaxObs,
        s0 \in Seeds, a0 \in Seeds,
        sw \in {StateWidth - 1, StateWidth},
        aw \in {ActionWidth - 1, ActionWidth},
        raw \in BOOLEAN }

InitDecode ==
    /\ MainIdle
    /\ WriterIdle
    /\ traj \in Trajectories
    /\ dpc = "states"
    /\ out = [error |-> "none"]

\* Mutant of DropLast: the last row is kept.
DropLast_Keep(a) == a

\* a[:-1]
DropLast(a) == SubSeq(a, 1, Len(a) - 1)

\* Mutant of DropFirst: the last row is dropped instead of the first.
DropFirst_DropsLast(a) == DropLast(a)

\* a[1:]
DropFirst(a) == Tail(a)

DecodeRaise(e) ==
    /\ dpc' = "raised"
    /\ out' = [out EXCEPT !.error = e]


\* Lines 130-136: the images without the last, the states expanded, the
\* expanded states without the last.
DecodeStates ==
    /\ dpc = "states"
    /\ LET obs == traj.states
           all_robot_state == proprioceptive_to_6d_rotation(obs)
       IN  IF obs = << >> THEN DecodeRaise("IndexError")
           ELSE IF Width(obs) # StateWidth THEN DecodeRaise("AssertionError")
           ELSE /\ dpc' = "actions"
                /\ out' = out @@
                     [color_image1 |-> DropLast(Tagged("color_image1", Len(obs))),
                      color_image2 |-> DropLast(Tagged("color_image2", Len(obs))),
                      all_robot_state |-> all_robot_state,
                      robot_state |-> DropLast(all_robot_state)]
    /\ UNCHANGED << main, writer, traj >>

\* Lines 139-140: the delta actions expanded.
DecodeActions ==
    /\ dpc = "actions"
    /\ IF traj.actions = << >> THEN DecodeRaise("IndexError")
       ELSE IF Width(traj.actions) # ActionWidth
       THEN DecodeRaise("AssertionError")
       ELSE /\ dpc' = "pose"
            /\ out' = out @@
                 [action_delta |-> action_to_6d_rotation(traj.actions)]
    /\ UNCHANGED << main, writer, traj >>

\* Lines 143-147: the pose of every expanded state but the first; rewards
\* and skills as they are.  The slice keeps the width of all_robot_state.
DecodePose ==
    /\ dpc = "pose"
    /\ IF Width(out.all_robot_state) # ExpandedWidth
       THEN DecodeRaise("AssertionError")
       ELSE /\ dpc' = "check"
            /\ out' = out @@
                 [action_pos |-> extract_ee_pose_6d(DropFirst(out.all_robot_state)),
                  reward |-> traj.rewards,
                  skill |-> traj.skills]
    /\ UNCHANGED << main, writer, traj >>

\* Lines 150-171: the length check, the path after "raw", the result.
DecodeReturn ==
    /\ dpc = "check"
    /\ IF Len(out.robot_state) # Len(out.action_delta)
       THEN DecodeRaise("AssertionError")
       ELSE IF ~traj.underRaw THEN DecodeRaise("ValueError")
       ELSE /\ dpc' = "done"
            /\ out' = [error |-> "none",
                       robot_state |-> out.robot_state,
                       color_image1 |-> out.color_image1,
                       color_image2 |-> out.color_image2,
                       action_delta |-> out.action_delta,
                       action_pos |-> out.action_pos,
                       reward |-> out.reward,
                       skill |-> out.skill,
                       episode_length |-> Len(out.action_delta),
                       furniture |-> traj.furniture,
                       success |-> traj.success,
                       pickle_file |-> "after raw"]
    /\ UNCHANGED << main, writer, traj >>

NextDecode ==
    \/ DecodeStates
    \/ DecodeActions
    \/ DecodePose
    \/ DecodeReturn

SpecDecode == InitDecode /\ [][NextDecode]_vars

\* ======================================== parallel_write_to_zarr, in detail
\* parallel_write_to_zarr(z, aggregated_data, num_threads) on a store made
\* by initialize_zarr_store.  The script does not call it; it is followed
\* from a call of its own.
MaxKeys == 3

WriteKeys == SubSeq(AggKeys, 1, MaxKeys)

\* initialize_zarr_store(out_path, full_data_shapes) where full_data_shapes
\* names the keys in made, each with the shape of its data.
DeclaredStore(made) ==
    [zarr_open_w EXCEPT
        !.attrs["time_created"] = "run",
        !.created = [c \in Channels |-> IF c \in made THEN "run" ELSE "no"],
        !.shape = [c \in Channels |-> IF c \in made THEN Len(agg[c]) ELSE 0]]

\* The call: data of one or two rows for every key, a store with datasets
\* for some of the keys.
InitWrite ==
    /\ paths = << >>
    /\ overwrite = FALSE
    /\ target = NoStore
    /\ fstate = << >>
    /\ completed = << >>
    /\ snapshot = {}
    /\ waitq = << >>
    /\ yielded = << >>
    /\ cur = 0
    /\ DecoderIdle
    /\ numThreads \in 1..MaxThreads
    /\ \E n \in 1..2 : agg = [k \in Range(WriteKeys) |-> Rows(1, 0, n - 1)]
    /\ \E made \in SUBSET Range(WriteKeys) : store = DeclaredStore(made)
    /\ pc = "w_submit"
    /\ err = NoError
    /\ idx = 1
    /\ wtask = [k \in Range(WriteKeys) |-> "new"]
    /\ wseen = {}

\* A call of write_to_zarr_store that has returned or raised, and what its
\* future will be finished with.
Outcome ==
    [returned |-> "ok", raised_KeyError |-> "KeyError",
     raised_IOError |-> "IOError"]

\* The keys whose future is finished.
WFinished ==
    {k \in DOMAIN wtask : wtask[k] \in {Outcome[s] : s \in DOMAIN Outcome}}

\* The keys a worker is busy with: the call is running, or it is over and
\* the future not yet finished.
WBusy == {k \in DOMAIN wtask : wtask[k] \in {"running"} \cup DOMAIN Outcome}

\* futures.append(executor.submit(write_to_zarr_store, z, key, value))
WSubmit ==
    /\ pc = "w_submit"
    /\ wtask' = [wtask EXCEPT ![WriteKeys[idx]] = "queued"]
    /\ IF idx < Len(WriteKeys)
       THEN idx' = idx + 1 /\ pc' = pc
       ELSE idx' = 0 /\ pc' = "w_collect"
    /\ UNCHANGED << decoder, inputs, store, err, pool, cur, agg, wseen >>

\* A free worker takes the task submitted first.
WStart ==
    /\ Cardinality(WBusy) < numThreads
    /\ \E i \in 1..Len(WriteKeys) :
          /\ wtask[WriteKeys[i]] = "queued"
          /\ \A j \in 1..(i - 1) : wtask[WriteKeys[j]] # "queued"
          /\ wtask' = [wtask EXCEPT ![WriteKeys[i]] = "running"]
    /\ UNCHANGED << decoder, inputs, store, pc, err, pool, cur, idx, agg, wseen >>

\* write_to_zarr_store(z, key, value): z[key][:] = value, one step of it.
\* z[key] raises KeyError when the group has no dataset of the name.  The
\* value is stored chunk after chunk, here one row to a chunk; the call
\* returns after the last one, and a failure of the storage ends it with
\* the chunks stored so far left in the store.
WriteTask ==
    \E key \in DOMAIN wtask, ok \in BOOLEAN :
        /\ wtask[key] = "running"
        /\ IF ~DatasetExists(key)
           THEN /\ store' = store
                /\ wtask' = [wtask EXCEPT ![key] = "raised_KeyError"]
           ELSE IF ~ok
           THEN /\ store' = store
                /\ wtask' = [wtask EXCEPT ![key] = "raised_IOError"]
           ELSE LET stored == Len(store.data[key]) + 1
                IN  IF stored < Len(agg[key])
                    THEN /\ store' = [store EXCEPT
                                !.data[key] = SubSeq(agg[key], 1, stored)]
                         /\ wtask' = wtask
                    ELSE /\ store' = [store EXCEPT !.written[key] = "run",
                                                   !.data[key] = agg[key],
                                                   !.nwrites[key] = @ + 1]
                         /\ wtask' = [wtask EXCEPT ![key] = "returned"]
        /\ UNCHANGED << decoder, inputs, pc, err, pool, cur, idx, agg, wseen >>

\* The worker finishes the future of the call with its result or exception
\* (set_result, set_exception); only then does as_completed see it.
WSetResult ==
    \E key \in DOMAIN wtask :
        /\ wtask[key] \in DOMAIN Outcome
        /\ wtask' = [wtask EXCEPT ![key] = Outcome[wtask[key]]]
        /\ UNCHANGED << decoder, inputs, store, pc, err, pool, cur, idx, agg,
                        wseen >>

\* for future in as_completed(futures): future.result().  Any finished
\* future not yet yielded may be the next one: the futures found finished
\* come in no particular order and the others as they finish.
WResult ==
    /\ pc = "w_collect"
    /\ IF wseen = DOMAIN wtask
       THEN pc' = "w_shutdown" /\ UNCHANGED << err, wseen >>
       ELSE \E key \in WFinished \ wseen :
               IF wtask[key] = "ok"
               THEN wseen' = wseen \cup {key} /\ UNCHANGED << pc, err >>
               ELSE /\ err' = [kind |-> wtask[key], at |-> "w_collect"]
                    /\ pc' = "w_shutdown"
                    /\ wseen' = wseen \cup {key}
    /\ UNCHANGED << decoder, inputs, store, pool, cur, idx, agg, wtask >>

\* Leaving the with block waits for every submitted task, the ones not yet
\* started included; then the function returns or the error leaves it.
WShutdown ==
    /\ pc = "w_shutdown"
    /\ WFinished = DOMAIN wtask
    /\ pc' = IF err = NoError THEN "w_returned" ELSE "error"
    /\ UNCHANGED << aux, inputs, store, err, pool, cur, idx, agg >>

NextWrite ==
    \/ WSubmit
    \/ WStart
    \/ WriteTask
    \/ WSetResult
    \/ WResult
    \/ WShutdown

SpecWrite == InitWrite /\ [][NextWrite]_vars

\* =================================================================== claims
\* Length of a per-timestep channel of the decoded episode of path f.
ChannelLen(f, key) == Len(process_pickle_file(f, paths[f], key))

Last(s) == s[Len(s)]

RECURSIVE SumStateLens(_)
SumStateLens(fs) ==
    IF fs = <<>> THEN 0
    ELSE ChannelLen(Head(fs), "robot_state") + SumStateLens(Tail(fs))

\* C1: at every point of the fold, episode_ends is strictly increasing, each
\* entry exceeds the one before it (0 for the first) by the length of the
\* episode folded at that position, and the last entry is the sum of the
\* lengths of the episodes folded so far.
C1_EpisodeEnds ==
    LET ends == agg["episode_ends"]
    IN  /\ Len(ends) <= Len(yielded)
        /\ \A k \in 1..Len(ends) :
              LET prev == IF k = 1 THEN 0 ELSE ends[k - 1]
              IN  /\ ends[k] > prev
                  /\ ends[k] - prev = ChannelLen(yielded[k], "robot_state")
                  /\ ends[k] - prev = ChannelLen(yielded[k], "action/delta")
        /\ Len(ends) > 0 =>
              Last(ends) = SumStateLens(SubSeq(yielded, 1, Len(ends)))

\* Two episodes of different lengths folded against the input order.
C1_Witness ==
    /\ pc = "returned"
    /\ yielded = <<2, 1>>
    /\ Len(agg["episode_ends"]) = 2
    /\ agg["episode_ends"][1] # agg["episode_ends"][2] - agg["episode_ends"][1]

\* C2: the five per-timestep channels state, actionDelta, actionPos, reward
\* and skill of every episode that decodes have the same length; an episode
\* for which they would differ fails to decode.
C2_AllChannelsSameLength ==
    \A f \in Futures :
        fstate[f] = "ok" =>
            \A key \in {"action/delta", "action/pos", "reward", "skill"} :
                ChannelLen(f, key) = ChannelLen(f, "robot_state")

\* C3: when parallel_process_pickle_files has returned, every per-timestep
\* channel of the aggregate is as long as the last entry of episode_ends.
C3_ChannelTotals ==
    pc = "returned" =>
        \A key \in TimestepKeys : Len(agg[key]) = Last(agg["episode_ends"])

\* C4: when parallel_process_pickle_files has returned, furniture, success,
\* pickle_file and episode_ends each have one entry per input path, every
\* task succeeded and every path occurs once in pickle_file.
C4_EpisodeCounts ==
    pc = "returned" =>
        /\ \A key \in EpisodeKeys : Len(agg[key]) = N
        /\ \A f \in Futures : fstate[f] = "ok"
        /\ Range(agg["pickle_file"]) = Futures

\* The aggregate of two episodes has been returned.
C4_Witness ==
    /\ pc = "returned"
    /\ N = 2
    /\ Len(agg["furniture"]) = 2


\* The positions of the main thread from the return of
\* parallel_process_pickle_files on.
WritePhase == {"returned", "stamp", "create", "write", "finish", "done"}

AnyDecodeFails == \E f \in Futures : ProcessOutcome(paths[f]) # "ok"

\* C5: when some decode task fails (and the run was not refused at the
\* output check), parallel_process_pickle_files never returns and the write
\* phase is never entered, the store stays as it was found, and the run ends
\* with the error of the first failed task delivered, every task delivered
\* before it having been folded whole and none after it.
C5_FailFast ==
    AnyDecodeFails =>
        /\ pc \notin WritePhase
        /\ store = target
        /\ (pc = "error" /\ err.at # "check") =>
              /\ err.at = "collect"
              /\ yielded # <<>>
              /\ fstate[Last(yielded)] = "failed"
              /\ err.kind = ProcessOutcome(paths[Last(yielded)])
              /\ \A k \in 1..(Len(yielded) - 1) : fstate[yielded[k]] = "ok"
              /\ \A key \in Range(AggKeys) : Len(agg[key]) = Len(yielded) - 1

\* One episode was folded, then a failed task was delivered and the run ended.
C5_Witness ==
    /\ pc = "error"
    /\ err.at = "collect"
    /\ Len(yielded) = 2
    /\ Len(agg["pickle_file"]) = 1
    /\ target = NoStore
    /\ store = NoStore

\* C6: when the output path exists at the start and overwrite is not set, no
\* decode task is ever submitted, the store stays as it was found, and the
\* run ends with the already-exists error raised at the output check.
C6_AlreadyExists ==
    (target.exists /\ ~overwrite) =>
        /\ pc \in {"check", "error"}
        /\ \A f \in Futures : fstate[f] = "new"
        /\ store = target
        /\ pc = "error" => err = [kind |-> "AlreadyExists", at |-> "check"]

\* A run over two paths refused at the output check.
C6_Witness ==
    /\ pc = "error"
    /\ err.kind = "AlreadyExists"
    /\ N = 2
    /\ store = OldStore

\* C7: the store at the output path never holds this run's data in some
\* channels while other channels are absent or not yet written.
C7_NeverPartial ==
    \A c, d \in Channels :
        store.written[c] = "run" => store.written[d] = "run"

\* C8: a store that carries one of this run's completion attributes has all
\* 11 channels created and written by this run with the aggregated data, and
\* a run that failed in the decode phase or before the end of the channel
\* writes left none of these attributes.
C8_MetadataLast ==
    /\ (\E a \in Range(FinalAttrs) : store.attrs[a] = "run") =>
          \A c \in Channels :
              /\ store.created[c] = "run"
              /\ store.written[c] = "run"
              /\ store.data[c] = agg[c]
    /\ (pc = "error"
        /\ err.at \in {"collect", "concat", "returned", "stamp", "create", "write"}) =>
          \A a \in Range(FinalAttrs) : store.attrs[a] # "run"

\* A run over two episodes that ended with all completion attributes set.
C8_Witness ==
    /\ pc = "done"
    /\ N = 2
    /\ \A a \in Range(FinalAttrs) : store.attrs[a] = "run"
    /\ Cardinality(Channels) = 11

\* C9 as stated: two episodes of lengths 5 and 3 give episode_ends = [5, 8]
\* whatever the order in which the two tasks finish.
C9_Original ==
    (pc = "returned" /\ paths = <<Ep5, Ep3>>) => agg["episode_ends"] = <<5, 8>>

\* C9 amended: two episodes of lengths 5 and 3 give episode_ends = [5, 8]
\* when the episode of length 5 is folded first and [3, 8] when the episode
\* of length 3 is folded first.
C9_Amended ==
    (pc = "returned" /\ paths = <<Ep5, Ep3>>) =>
        \/ yielded = <<1, 2>> /\ agg["episode_ends"] = <<5, 8>>
        \/ yielded = <<2, 1>> /\ agg["episode_ends"] = <<3, 8>>

\* The episode of length 3 was folded first.
C9_Witness ==
    /\ pc = "returned"
    /\ paths = <<Ep5, Ep3>>
    /\ agg["episode_ends"] = <<3, 8>>


\* The aggregate holds concatenated arrays.
Concatenated ==
    \/ pc \in WritePhase
    \/ pc = "error" /\ err.at \in WritePhase

\* The number of delivered episodes folded whole.
FoldedWhole ==
    IF pc \in {"fold", "shutdown"} \/ (pc = "error" /\ err.at = "collect")
    THEN Len(yielded) - 1
    ELSE Len(yielded)

\* The number of entries the j-th key of the aggregate holds: one more than
\* the episodes folded whole for the keys the running fold has passed.
EntriesOf(j) ==
    FoldedWhole + (IF pc = "fold" /\ j < idx THEN 1 ELSE 0)

RECURSIVE SumEpisodeLengths(_, _)
SumEpisodeLengths(order, k) ==
    IF k = 0 THEN 0
    ELSE SumEpisodeLengths(order, k - 1)
         + process_pickle_file(order[k], paths[order[k]], "episode_length")

\* What the k-th entry of a key of the aggregate is when the episodes are
\* folded in the given order.
EntryOf(key, order, k) ==
    IF key = "episode_ends"
    THEN SumEpisodeLengths(order, k)
    ELSE process_pickle_file(order[k], paths[order[k]], key)

\* Every key of the aggregate holds, position by position, the data of the
\* episodes taken in the given order, and at most the episode being folded
\* is present in some keys and not yet in others.
FoldedInOrder(order) ==
    \A j \in 1..Len(AggKeys) :
        LET key == AggKeys[j]
            n == IF Concatenated THEN N ELSE EntriesOf(j)
            entries == [k \in 1..n |-> EntryOf(key, order, k)]
        IN  /\ n <= Len(order)
            /\ agg[key] = IF Concatenated /\ key \in TimestepKeys
                          THEN np_concatenate(entries)
                          ELSE entries

Pos(s, x) == CHOOSE k \in 1..Len(s) : s[k] = x

\* as_completed delivers each future once and only after its task finished,
\* the futures of its initial set first, then the others in the order in
\* which they finished.
DeliveryOrder ==
    /\ Range(yielded) \subseteq Range(completed)
    /\ \A i, j \in 1..Len(yielded) :
          i < j =>
            /\ yielded[i] # yielded[j]
            /\ yielded[j] \in snapshot => yielded[i] \in snapshot
            /\ (yielded[i] \notin snapshot /\ yielded[j] \notin snapshot) =>
                  Pos(completed, yielded[i]) < Pos(completed, yielded[j])

\* C10 as stated: the k-th entries of all keys of the aggregate come from the
\* k-th task to finish.
C10_Original == FoldedInOrder(completed)

\* C10 amended: the k-th entries of all keys of the aggregate come from the
\* k-th future delivered by as_completed, at most one episode is partly
\* folded at any time, futures are delivered in the order their tasks
\* finished except for those already finished when as_completed starts, and
\* no step of a worker changes the aggregate.
C10_Amended ==
    /\ [](FoldedInOrder(yielded) /\ DeliveryOrder)
    /\ [][(StartTask \/ FinishTask) => agg' = agg]_vars

\* Two episodes were folded in the reverse of the order their tasks finished.
C10_Witness ==
    /\ pc = "returned"
    /\ completed = <<1, 2>>
    /\ yielded = <<2, 1>>
    /\ agg["pickle_file"] = <<2, 1>>


\* C11: while a decode task is not yet submitted, queued or running, the
\* store is as it was found and the main thread is not in the write phase.
C11_PhasesSequenced ==
    (\E f \in Futures : fstate[f] \notin {"ok", "failed"}) =>
        /\ store = target
        /\ pc \notin WritePhase

\* The store has been opened for a run over two episodes, all tasks finished.
C11_Witness ==
    /\ pc = "create"
    /\ N = 2
    /\ store # target
    /\ \A f \in Futures : fstate[f] = "ok"

\* C12: a run with overwrite set over an existing store is not refused, and
\* once it has opened the store nothing of the earlier store is left: no
\* channel, no attribute, nothing else at the path; when it is done every
\* channel and attribute is this run's.
C12_Replaced ==
    (target = OldStore /\ overwrite) =>
        /\ err.kind # "AlreadyExists"
        /\ (pc \in WritePhase \ {"returned"}) =>
              /\ \A c \in Channels :
                    store.created[c] # "old" /\ store.written[c] # "old"
              /\ \A a \in AttrNames : store.attrs[a] # "old"
              /\ store.extra # "old"
        /\ pc = "done" =>
              /\ \A c \in Channels :
                    /\ store.created[c] = "run"
                    /\ store.written[c] = "run"
                    /\ store.data[c] = agg[c]
              /\ \A a \in AttrNames : store.attrs[a] = "run"

\* A run with overwrite over an existing store has ended successfully.
C12_Witness ==
    /\ target = OldStore
    /\ overwrite
    /\ pc = "done"
    /\ store.extra = "absent"


\* The channels the run has created in the store.
CreatedByRun == {c \in Channels : store.created[c] = "run"}

\* C16: the run writes no channel twice and none that it has not created;
\* once the datasets are created they are exactly the keys of the aggregate,
\* and when the run is done each of them has been written once.
C16_ChannelsOnce ==
    /\ \A c \in Channels :
          /\ store.nwrites[c] <= 1
          /\ store.nwrites[c] = 1 => c \in CreatedByRun
          /\ store.written[c] = "run" <=> store.nwrites[c] = 1
    /\ pc \in {"write", "finish", "done"} => CreatedByRun = Range(AggKeys)
    /\ pc = "done" => \A c \in Range(AggKeys) : store.nwrites[c] = 1

\* A run over two episodes is done, each of the 11 channels written once.
C16_Witness ==
    /\ pc = "done"
    /\ N = 2
    /\ CreatedByRun = Channels
    /\ \A c \in Channels : store.nwrites[c] = 1

\* C19: in a run with overwrite set over an existing store, the store is as
\* it was found until every task has succeeded and the aggregate has been
\* returned, and a run that failed in the decode phase leaves it so.
C19_OldStoreKept ==
    (target = OldStore /\ overwrite) =>
        /\ store # target =>
              /\ Concatenated
              /\ N >= 1
              /\ \A f \in Futures : fstate[f] = "ok"
        /\ (pc \in {"shutdown", "error"} /\ err.at \in {"collect", "concat"}) =>
              store = target

\* A run with overwrite over an existing store failed on the second task
\* delivered and left the store as it was.
C19_Witness ==
    /\ target = OldStore
    /\ overwrite
    /\ pc = "error"
    /\ err.at = "collect"
    /\ Len(yielded) = 2
    /\ store = OldStore

\* C20: with an empty list of paths parallel_process_pickle_files does not
\* return; a run that is not refused at the output check ends with the
\* ValueError of np.concatenate, and the store stays as it was found.
C20_EmptyInput ==
    N = 0 =>
        /\ pc \in {"check", "submit", "collect", "error"}
        /\ store = target
        /\ (pc = "error" /\ err.at # "check") =>
              err = [kind |-> "ValueError", at |-> "concat"]

\* A run over no path ended in np.concatenate, with no store at the path.
C20_Witness ==
    /\ N = 0
    /\ pc = "error"
    /\ err.at = "concat"
    /\ ~store.exists


\* The main thread has left parallel_process_pickle_files, by return or by
\* an exception.
DecodeLeft ==
    \/ pc \in WritePhase
    \/ pc = "error" /\ err.at # "check"

\* The run ended with the error of a decode task.
DecodeFailed == pc = "error" /\ err.at = "collect"

\* C17 as stated: the error that ends the decode phase is that of the first
\* task to fail in the order in which the tasks finished.
C17_Original ==
    DecodeFailed =>
        \A f \in Futures :
            fstate[f] = "failed" =>
                Pos(completed, Last(yielded)) <= Pos(completed, f)

\* C17 amended: the decode phase ends; when it has been left every submitted
\* task has finished; it returns only with every task delivered and
\* successful, and otherwise raises the error of the first failed future
\* delivered by as_completed; from that delivery on nothing more is
\* delivered or folded.
C17_Amended ==
    /\ <>(pc \in WritePhase \cup {"error"})
    /\ [](DecodeLeft => \A f \in Futures : fstate[f] \in {"ok", "failed"})
    /\ [](pc = "returned" =>
            /\ Len(yielded) = N
            /\ \A f \in Futures : fstate[f] = "ok")
    /\ []((pc = "shutdown" \/ DecodeFailed) =>
            /\ fstate[Last(yielded)] = "failed"
            /\ err.kind = ProcessOutcome(paths[Last(yielded)])
            /\ \A k \in 1..(Len(yielded) - 1) : fstate[yielded[k]] = "ok")
    /\ [][pc = "shutdown" => (agg' = agg /\ yielded' = yielded)]_vars

\* The first task delivered had failed; the other task ran to its end and
\* its result was not folded.
C17_Witness ==
    /\ DecodeFailed
    /\ N = 2
    /\ Len(yielded) = 1
    /\ \E f \in Futures : fstate[f] = "ok" /\ f \notin Range(yielded)
    /\ agg["pickle_file"] = <<>>

\* ------------------------------------------------------------------- C13
\* An array of n rows, each w wide.
HasShape(a, n, w) ==
    /\ Len(a) = n
    /\ \A k \in 1..n : Len(a[k]) = w

\* The episode has at least one action, every action is 8 wide, every state
\* is 14 wide and there is one observation more than there are actions.
WellFormed ==
    /\ traj.actions # << >>
    /\ \A k \in 1..Len(traj.actions) : Len(traj.actions[k]) = ActionWidth
    /\ \A k \in 1..Len(traj.states) : Len(traj.states[k]) = StateWidth
    /\ Len(traj.states) = Len(traj.actions) + 1

\* C13: an episode with N 8-wide actions and N+1 14-wide states decodes to
\* robot_state [N,16], action/delta [N,10], action/pos [N,9], N images of
\* each camera and episode_length N; the decode of such an episode fails
\* only when its path does not lie under "raw".
C13_DecodedShapes ==
    LET n == Len(traj.actions)
    IN  /\ (WellFormed /\ dpc = "raised") => out.error = "ValueError"
        /\ (WellFormed /\ dpc = "done") =>
              /\ HasShape(out.robot_state, n, ExpandedWidth)
              /\ HasShape(out.action_delta, n, ActionWidth + 2)
              /\ HasShape(out.action_pos, n, 9)
              /\ Len(out.color_image1) = n
              /\ Len(out.color_image2) = n
              /\ out.episode_length = n

C13_Witness ==
    /\ WellFormed
    /\ dpc = "done"
    /\ out.episode_length = 2
    /\ Len(traj.states) = 3

\* ------------------------------------------------------------------- C15
\* The expanded state of one observation, and the pose read from it.
ExpandedState(s) == proprioceptive_to_6d_rotation(<< s >>)[1]
PoseOf(e) == extract_ee_pose_6d(<< e >>)[1]

\* C15: in a decoded episode with observations o_0..o_N, robot_state[t] is
\* the expanded state of o_t and action/pos[t] the pose of the expanded state
\* of o_(t+1), for t in 0..N-1: the first observation is used by robot_state
\* only and the last by action/pos only.
C15_PoseIsNextState ==
    dpc = "done" =>
        LET n == out.episode_length
        IN  /\ Len(traj.states) = n + 1
            /\ Len(out.robot_state) = n
            /\ Len(out.action_pos) = n
            /\ \A t \in 1..n :
                  /\ out.robot_state[t] = ExpandedState(traj.states[t])
                  /\ out.action_pos[t] =
                        PoseOf(ExpandedState(traj.states[t + 1]))

C15_Witness ==
    /\ dpc = "done"
    /\ out.episode_length = 2
    /\ out.action_pos[2] = PoseOf(ExpandedState(traj.states[3]))
    /\ out.action_pos[2] # PoseOf(out.robot_state[2])
    /\ out.action_pos[1] # PoseOf(out.robot_state[1])

\* ------------------------------------------------------------------- C18
IsUnit(q) == q[1] * q[1] + q[2] * q[2] + q[3] * q[3] + q[4] * q[4] = 1

StatesExpanded == dpc \in {"actions", "pose", "check"}
ActionsExpanded == dpc \in {"pose", "check"}
PoseExtracted == dpc = "check"

\* C18: for every 14-wide state row s with a unit quaternion, the pose read
\* from the expanded row is s[0:3] followed by the 6 numbers the quaternion
\* s[3:7] expands to; expanding a state or an action leaves the position,
\* the velocities and the gripper as they were and in the same order; and
\* each row of a batch is expanded as it would be alone.
C18_ExpandExtract ==
    /\ StatesExpanded =>
          \A k \in 1..Len(traj.states) :
              LET s == traj.states[k]
                  e == out.all_robot_state[k]
                  r == quat_to_rot_6d(SubSeq(s, 4, 7))
              IN  /\ IsUnit(SubSeq(s, 4, 7))
                  /\ Len(r) = 6
                  /\ PoseOf(e) = SubSeq(s, 1, 3) \o r
                  /\ SubSeq(e, 1, 3) = SubSeq(s, 1, 3)
                  /\ SubSeq(e, 4, 9) = r
                  /\ SubSeq(e, 10, 16) = SubSeq(s, 8, 14)
                  /\ e = ExpandedState(s)
    /\ ActionsExpanded =>
          \A k \in 1..Len(traj.actions) :
              LET a == traj.actions[k]
                  d == out.action_delta[k]
              IN  /\ SubSeq(d, 1, 3) = SubSeq(a, 1, 3)
                  /\ SubSeq(d, 4, 9) = quat_to_rot_6d(SubSeq(a, 4, 7))
                  /\ SubSeq(d, 10, 10) = SubSeq(a, 8, 8)
                  /\ Len(d) = 10
                  /\ d = action_to_6d_rotation(<< a >>)[1]
    /\ PoseExtracted =>
          \A k \in 1..Len(out.action_pos) :
              LET s == traj.states[k + 1]
              IN  out.action_pos[k] =
                     SubSeq(s, 1, 3) \o quat_to_rot_6d(SubSeq(s, 4, 7))

C18_Witness ==
    /\ PoseExtracted
    /\ Len(out.action_pos) = 2
    /\ Len(traj.actions) = 2
    /\ SubSeq(out.action_pos[1], 4, 9) # SubSeq(out.action_pos[2], 4, 9)
    /\ SubSeq(out.action_delta[1], 4, 9) # SubSeq(out.action_delta[2], 4, 9)

====
